---- MODULE Spec2Model ----
(***************************************************************************)
(* Model of hw_7.py: the validated field types, Record, AddressBook, the   *)
(* command functions with the input_error wrapper, and the dispatch loop   *)
(* of main().                                                              *)
(*                                                                         *)
(* Strings are TLA+ strings; Chars gives the characters of every string    *)
(* the model reads character by character (names, phones, dates).  A       *)
(* display string is the sequence of the fragments it is concatenated from.*)
(***************************************************************************)
EXTENDS Integers, Sequences, FiniteSets, TLC

VARIABLES
    book,    \* AddressBook.data: the entries [key, rec] in insertion order
    line,    \* the input line read last, split into its words (or the
             \* function called last, with its arguments)
    out,     \* the text printed for that line
    raised,  \* the exception the command function raised for it, or "none"
    today,   \* the date the command read from the clock, NoDate if none
    pc       \* where main is: "input" (about to read a line), "dispatch" (a
             \* line is read), "printed" (its answer is printed), "exited"
             \* (close/exit) or "crashed" (uncaught exception)

vars == <<book, line, out, raised, today, pc>>

----------------------------------------------------------------------------
(* Bounds *)

\* most phones the whole book holds: the model enters no add beyond it
MaxPhones == 3

\* longest string a Phone is constructed from on its own
MaxStrLen == 11

----------------------------------------------------------------------------
(* Input strings *)

NameTokens == {"ann", "bob"}

GoodPhones == {"1234567890", "5555555555"}

BadPhones == {"123456789"}

PhoneTokens == GoodPhones \cup BadPhones

GoodDates == {"29.02.2024", "02.03.1990", "1.1.2000"}

BadDates == {"31.02.2023"}

DateTokens == GoodDates \cup BadDates

Tokens == NameTokens \cup PhoneTokens \cup DateTokens

Chars(s) ==
    CASE s = "ann"        -> <<"a", "n", "n">>
      [] s = "bob"        -> <<"b", "o", "b">>
      [] s = "1234567890" -> <<"1", "2", "3", "4", "5", "6", "7", "8", "9", "0">>
      [] s = "5555555555" -> <<"5", "5", "5", "5", "5", "5", "5", "5", "5", "5">>
      [] s = "123456789"  -> <<"1", "2", "3", "4", "5", "6", "7", "8", "9">>
      [] s = "29.02.2024" -> <<"2", "9", ".", "0", "2", ".", "2", "0", "2", "4">>
      [] s = "02.03.1990" -> <<"0", "2", ".", "0", "3", ".", "1", "9", "9", "0">>
      [] s = "31.02.2023" -> <<"3", "1", ".", "0", "2", ".", "2", "0", "2", "3">>
      [] s = "1.1.2000"   -> <<"1", ".", "1", ".", "2", "0", "0", "0">>
      [] s = "02.01.2024" -> <<"0", "2", ".", "0", "1", ".", "2", "0", "2", "4">>
      [] s = "31.12.1999" -> <<"3", "1", ".", "1", "2", ".", "1", "9", "9", "9">>

Digits == {"0", "1", "2", "3", "4", "5", "6", "7", "8", "9"}

Whitespace == {" ", "\n", "\t"}

DigitVal(c) ==
    CASE c = "0" -> 0 [] c = "1" -> 1 [] c = "2" -> 2 [] c = "3" -> 3
      [] c = "4" -> 4 [] c = "5" -> 5 [] c = "6" -> 6 [] c = "7" -> 7
      [] c = "8" -> 8 [] c = "9" -> 9

\* the value Python's None has in a field or variable
None == "<None>"

----------------------------------------------------------------------------
(* Results of a call: a returned value or a raised exception, with the     *)
(* book as the call leaves it.                                             *)

Return(v, b) == [kind |-> "return", value |-> v, exc |-> "none", book |-> b]

Raise(e, msg, b) == [kind |-> "raise", value |-> msg, exc |-> e, book |-> b]

----------------------------------------------------------------------------
(* Field types *)

\* Name.__init__: value.strip() must be non-empty
NameValid(s) == \E i \in 1..Len(Chars(s)) : Chars(s)[i] \notin Whitespace

PhoneLen == 10

\* re.match(r"^\d{10}$", value) for the characters cs of value; "$" also
\* matches just before a newline that ends the string
PhoneMatch(cs) ==
    /\ Len(cs) >= PhoneLen
    /\ \A i \in 1..PhoneLen : cs[i] \in Digits
    /\ \/ Len(cs) = PhoneLen
       \/ Len(cs) = PhoneLen + 1 /\ cs[PhoneLen + 1] = "\n"

\* Phone.__init__ accepts the string s
PhoneValid(s) == PhoneMatch(Chars(s))

IsLeap(y) == (y % 4 = 0) /\ ((y % 100 # 0) \/ (y % 400 = 0))

DaysInMonth(y, m) ==
    CASE m \in {1, 3, 5, 7, 8, 10, 12} -> 31
      [] m \in {4, 6, 9, 11}           -> 30
      [] m = 2                         -> IF IsLeap(y) THEN 29 ELSE 28

\* the text "%d" accepts: 3[0-1] | [1-2]\d | 0[1-9] | [1-9] | " "[1-9]
DayText(cs) ==
    \/ Len(cs) = 2 /\ cs[1] = "3" /\ cs[2] \in {"0", "1"}
    \/ Len(cs) = 2 /\ cs[1] \in {"1", "2"} /\ cs[2] \in Digits
    \/ Len(cs) = 2 /\ cs[1] \in {"0", " "} /\ cs[2] \in Digits \ {"0"}
    \/ Len(cs) = 1 /\ cs[1] \in Digits \ {"0"}

\* the text "%m" accepts: 1[0-2] | 0[1-9] | [1-9]
MonthText(cs) ==
    \/ Len(cs) = 2 /\ cs[1] = "1" /\ cs[2] \in {"0", "1", "2"}
    \/ Len(cs) = 2 /\ cs[1] = "0" /\ cs[2] \in Digits \ {"0"}
    \/ Len(cs) = 1 /\ cs[1] \in Digits \ {"0"}

\* the text "%Y" accepts: \d\d\d\d
YearText(cs) == Len(cs) = 4 /\ \A i \in 1..4 : cs[i] \in Digits

NumVal(cs) ==
    IF Len(cs) = 1 THEN DigitVal(cs[1])
    ELSE IF Len(cs) = 2
         THEN (IF cs[1] = " " THEN 0 ELSE DigitVal(cs[1])) * 10 + DigitVal(cs[2])
         ELSE DigitVal(cs[1]) * 1000 + DigitVal(cs[2]) * 100
              + DigitVal(cs[3]) * 10 + DigitVal(cs[4])

\* the ways the pattern of "%d.%m.%Y" matches the whole of cs: the lengths
\* of the day and of the month text
DateSplits(cs) ==
    {sp \in {1, 2} \X {1, 2} :
        /\ Len(cs) = sp[1] + sp[2] + 6
        /\ cs[sp[1] + 1] = "."
        /\ cs[sp[1] + sp[2] + 2] = "."
        /\ DayText(SubSeq(cs, 1, sp[1]))
        /\ MonthText(SubSeq(cs, sp[1] + 2, sp[1] + sp[2] + 1))
        /\ YearText(SubSeq(cs, sp[1] + sp[2] + 3, Len(cs)))}

NoDate == [ok |-> FALSE, y |-> 0, m |-> 0, d |-> 0]

Date(y, m, d) == [ok |-> TRUE, y |-> y, m |-> m, d |-> d]

\* datetime.date(y, m, d): NoDate when it raises ValueError
NewDate(y, m, d) ==
    IF y >= 1 /\ d <= DaysInMonth(y, m) THEN Date(y, m, d) ELSE NoDate

\* the date of the text cs that the pattern matches as sp
MatchedDate(cs, sp) ==
    NewDate(NumVal(SubSeq(cs, sp[1] + sp[2] + 3, Len(cs))),
            NumVal(SubSeq(cs, sp[1] + 2, sp[1] + sp[2] + 1)),
            NumVal(SubSeq(cs, 1, sp[1])))

ParseDate(cs, splits) ==
    IF splits = {} THEN NoDate ELSE MatchedDate(cs, CHOOSE sp \in splits : TRUE)

\* datetime.strptime(value, "%d.%m.%Y").date(); NoDate when it raises
\* ValueError (no match, or no such day in the calendar)
Strptime(s) == ParseDate(Chars(s), DateSplits(Chars(s)))

\* Birthday.__init__ stores the text itself when strptime accepts it
BirthdayValid(s) == Strptime(s).ok

----------------------------------------------------------------------------
(* Record: [name, phones, birthday]; a method gives the record as it       *)
(* leaves it and the exception it raised, if any.                          *)

RecOk(r) == [exc |-> "none", msg |-> <<>>, rec |-> r]

RecRaise(e, m, r) == [exc |-> e, msg |-> m, rec |-> r]

MsgPhone == <<"Phone must contain exactly 10 digits.">>

MsgName == <<"Name cannot be empty.">>

MsgDate == <<"Invalid date format. Use DD.MM.YYYY.">>

MsgOldPhone == <<"Old phone not found.">>

MsgAlreadySet == <<"Birthday is already set.">>

\* Record.__init__
NewRecord(name) ==
    IF NameValid(name)
    THEN RecOk([name |-> name, phones |-> <<>>, birthday |-> None])
    ELSE RecRaise("ValueError", MsgName, [name |-> None, phones |-> <<>>, birthday |-> None])

AddPhoneFront(r, phone) ==
    IF PhoneValid(phone)
    THEN RecOk([r EXCEPT !.phones = <<phone>> \o @])
    ELSE RecRaise("ValueError", MsgPhone, r)

\* Record.add_phone
AddPhone(r, phone) ==
    IF PhoneValid(phone)
    THEN RecOk([r EXCEPT !.phones = Append(@, phone)])
    ELSE RecRaise("ValueError", MsgPhone, r)

\* Record.find_phone: the position of the first phone with that value,
\* 0 for None
FindPhone(r, phone) ==
    IF \E i \in 1..Len(r.phones) : r.phones[i] = phone
    THEN CHOOSE i \in 1..Len(r.phones) :
            /\ r.phones[i] = phone
            /\ \A j \in 1..(i - 1) : r.phones[j] # phone
    ELSE 0

RECURSIVE Without(_, _)
Without(ps, phone) ==
    IF ps = <<>> THEN <<>>
    ELSE IF Head(ps) = phone THEN Without(Tail(ps), phone)
         ELSE <<Head(ps)>> \o Without(Tail(ps), phone)

RemovePhoneAll(r, phone) == [r EXCEPT !.phones = Without(@, phone)]

RemovePhoneLast(r, phone) ==
    IF FindPhone(r, phone) # 0
    THEN LET i == CHOOSE i \in 1..Len(r.phones) :
                      /\ r.phones[i] = phone
                      /\ \A j \in (i + 1)..Len(r.phones) : r.phones[j] # phone
         IN [r EXCEPT !.phones = SubSeq(@, 1, i - 1) \o SubSeq(@, i + 1, Len(@))]
    ELSE r

\* Record.remove_phone: list.remove of the object find_phone found
RemovePhone(r, phone) ==
    LET i == FindPhone(r, phone) IN
    IF i # 0
    THEN [r EXCEPT !.phones = SubSeq(@, 1, i - 1) \o SubSeq(@, i + 1, Len(@))]
    ELSE r

EditPhoneLenient(r, old_phone, new_phone) ==
    IF FindPhone(r, old_phone) # 0
    THEN AddPhone(RemovePhone(r, old_phone), new_phone)
    ELSE AddPhone(r, new_phone)

\* Record.edit_phone
EditPhone(r, old_phone, new_phone) ==
    IF FindPhone(r, old_phone) # 0
    THEN AddPhone(RemovePhone(r, old_phone), new_phone)
    ELSE RecRaise("ValueError", MsgOldPhone, r)

AddBirthdayOverwrite(r, birthday) ==
    IF BirthdayValid(birthday)
    THEN RecOk([r EXCEPT !.birthday = birthday])
    ELSE RecRaise("ValueError", MsgDate, r)

\* Record.add_birthday
AddBirthday(r, birthday) ==
    IF r.birthday # None
    THEN RecRaise("ValueError", MsgAlreadySet, r)
    ELSE IF BirthdayValid(birthday)
         THEN RecOk([r EXCEPT !.birthday = birthday])
         ELSE RecRaise("ValueError", MsgDate, r)

\* s.join(parts)
RECURSIVE Join(_, _)
Join(sep, parts) ==
    IF parts = <<>> THEN <<>>
    ELSE IF Len(parts) = 1 THEN <<parts[1]>>
         ELSE <<parts[1], sep>> \o Join(sep, Tail(parts))

\* Record.__str__: birthday.value is the text Birthday stored, and a str
\* has no strftime
RecordStr(r) ==
    IF r.birthday # None
    THEN [exc |-> "AttributeError", text |-> <<>>]
    ELSE [exc |-> "none",
          text |-> <<"Contact name: ", r.name, ", phones: ">> \o Join("; ", r.phones)]

----------------------------------------------------------------------------
(* AddressBook: data is the sequence of [key, rec] in insertion order.     *)

Keys(b) == {b[i].key : i \in 1..Len(b)}

\* the position of a key in data, 0 when absent
Index(b, name) ==
    IF name \in Keys(b) THEN CHOOSE i \in 1..Len(b) : b[i].key = name ELSE 0

\* AddressBook.find: the record, or None
Find(b, name) == IF Index(b, name) # 0 THEN b[Index(b, name)].rec ELSE None

Found(b, name) == Index(b, name) # 0

\* AddressBook.add_record: data[record.name.value] = record
AddRecord(b, r) ==
    IF Index(b, r.name) # 0
    THEN [b EXCEPT ![Index(b, r.name)] = [key |-> r.name, rec |-> r]]
    ELSE Append(b, [key |-> r.name, rec |-> r])

\* a method call on the record object stored under a key
Store(b, name, r) == [b EXCEPT ![Index(b, name)].rec = r]

DeleteSilent(b, name) ==
    IF name \in Keys(b)
    THEN [exc |-> "none",
          book |-> SubSeq(b, 1, Index(b, name) - 1) \o SubSeq(b, Index(b, name) + 1, Len(b))]
    ELSE [exc |-> "none", book |-> b]

\* AddressBook.delete
Delete(b, name) ==
    IF name \in Keys(b)
    THEN [exc |-> "none",
          book |-> SubSeq(b, 1, Index(b, name) - 1) \o SubSeq(b, Index(b, name) + 1, Len(b))]
    ELSE [exc |-> "KeyError", book |-> b]

----------------------------------------------------------------------------
(* Calendar arithmetic of datetime.date *)

RECURSIVE DaysBeforeMonth(_, _)
DaysBeforeMonth(y, m) ==
    IF m = 1 THEN 0 ELSE DaysBeforeMonth(y, m - 1) + DaysInMonth(y, m - 1)

DaysBeforeYear(y) ==
    (y - 1) * 365 + ((y - 1) \div 4) - ((y - 1) \div 100) + ((y - 1) \div 400)

\* date.toordinal: 1 for 0001-01-01
Ordinal(dt) == DaysBeforeYear(dt.y) + DaysBeforeMonth(dt.y, dt.m) + dt.d

\* date.weekday: 0 for Monday .. 6 for Sunday
Weekday(dt) == (Ordinal(dt) + 6) % 7

ReplaceYearClamp(dt, y) ==
    IF dt.ok
    THEN Date(y, dt.m, IF dt.d <= DaysInMonth(y, dt.m) THEN dt.d ELSE DaysInMonth(y, dt.m))
    ELSE NoDate

\* date.replace(year=y): NoDate when it raises ValueError
ReplaceYear(dt, y) ==
    IF dt.ok /\ dt.d <= DaysInMonth(y, dt.m) THEN Date(y, dt.m, dt.d) ELSE NoDate

\* date + timedelta(days=n), for n of at most one month
PlusDays(dt, n) ==
    IF dt.d + n <= DaysInMonth(dt.y, dt.m) THEN Date(dt.y, dt.m, dt.d + n)
    ELSE IF dt.m < 12
         THEN Date(dt.y, dt.m + 1, dt.d + n - DaysInMonth(dt.y, dt.m))
         ELSE Date(dt.y + 1, 1, dt.d + n - 31)

DigitStr(n) ==
    CASE n = 0 -> "0" [] n = 1 -> "1" [] n = 2 -> "2" [] n = 3 -> "3"
      [] n = 4 -> "4" [] n = 5 -> "5" [] n = 6 -> "6" [] n = 7 -> "7"
      [] n = 8 -> "8" [] n = 9 -> "9"

\* date.strftime("%d.%m.%Y"), one fragment per character
Strftime(dt) ==
    <<DigitStr(dt.d \div 10), DigitStr(dt.d % 10), ".",
      DigitStr(dt.m \div 10), DigitStr(dt.m % 10), ".",
      DigitStr(dt.y \div 1000), DigitStr((dt.y \div 100) % 10),
      DigitStr((dt.y \div 10) % 10), DigitStr(dt.y % 10)>>

MsgDayRange == <<"day is out of range for month">>

Window == 7

\* birthday_this_year after the "if birthday_this_year < today" of
\* get_upcoming_birthdays: NoDate when a replace raises ValueError
Candidate(this_year, td) ==
    IF this_year.ok /\ Ordinal(this_year) < Ordinal(td)
    THEN ReplaceYear(this_year, td.y + 1)
    ELSE this_year

ShiftedOne(candidate, wd) ==
    IF wd = 5 \/ wd = 6 THEN PlusDays(candidate, 1) ELSE candidate

\* greeting_date for a candidate whose weekday is wd
Shifted(candidate, wd) ==
    IF wd = 5 THEN PlusDays(candidate, 2)
    ELSE IF wd = 6 THEN PlusDays(candidate, 1)
    ELSE candidate

NoEntry(r, e) == [exc |-> e, hit |-> FALSE, entry |-> [name |-> r.name, birthday |-> <<>>]]

\* the "if 0 <= days_until_birthday <= 7" of get_upcoming_birthdays
Windowed(r, candidate, days_until) ==
    IF 0 <= days_until /\ days_until <= Window
    THEN [exc |-> "none", hit |-> TRUE,
          entry |-> [name |-> r.name,
                     birthday |-> Strftime(Shifted(candidate, Weekday(candidate)))]]
    ELSE NoEntry(r, "none")

EntryFor(r, td, candidate) ==
    IF ~candidate.ok THEN NoEntry(r, "ValueError")
    ELSE Windowed(r, candidate, Ordinal(candidate) - Ordinal(td))

\* the body of the loop of get_upcoming_birthdays for one record:
\* the exception raised, whether an entry is appended, and the entry
UpcomingOf(r, td) ==
    IF r.birthday = None THEN NoEntry(r, "none")
    ELSE EntryFor(r, td, Candidate(ReplaceYear(Strptime(r.birthday), td.y), td))

RECURSIVE UpcomingFromFront(_, _, _, _)
UpcomingFromFront(b, td, i, acc) ==
    IF i > Len(b) THEN [exc |-> "none", list |-> acc]
    ELSE LET u == UpcomingOf(b[i].rec, td) IN
         IF u.exc # "none" THEN [exc |-> u.exc, list |-> <<>>]
         ELSE UpcomingFromFront(b, td, i + 1, IF u.hit THEN <<u.entry>> \o acc ELSE acc)

\* AddressBook.get_upcoming_birthdays from record i on, acc the list so far
RECURSIVE UpcomingFrom(_, _, _, _)
UpcomingFrom(b, td, i, acc) ==
    IF i > Len(b) THEN [exc |-> "none", list |-> acc]
    ELSE LET u == UpcomingOf(b[i].rec, td) IN
         IF u.exc # "none" THEN [exc |-> u.exc, list |-> <<>>]
         ELSE UpcomingFrom(b, td, i + 1, IF u.hit THEN Append(acc, u.entry) ELSE acc)

\* AddressBook.get_upcoming_birthdays
GetUpcomingBirthdays(b, td) == UpcomingFrom(b, td, 1, <<>>)

\* AddressBook.__str__, from record i on
RECURSIVE BookStrFrom(_, _)
BookStrFrom(b, i) ==
    IF i > Len(b) THEN [exc |-> "none", text |-> <<>>]
    ELSE LET s == RecordStr(b[i].rec)
             rest == BookStrFrom(b, i + 1)
         IN IF s.exc # "none" THEN s
            ELSE IF rest.exc # "none" THEN rest
            ELSE [exc |-> "none",
                  text |-> s.text \o (IF i < Len(b) THEN <<"\n">> ELSE <<>>) \o rest.text]

BookStr(b) == BookStrFrom(b, 1)

----------------------------------------------------------------------------
(* Command functions: each gives Return(text, book) or Raise(exc, msg,     *)
(* book), the book being as the call leaves it.                            *)

MsgNoContact == <<"This contact does not exist.">>

MsgArgument == <<"Enter the argument for the command.">>

MsgInvalidInput == <<"Invalid input. Please check your data and try again.">>

MsgAdded == <<"Contact added.">>

MsgUpdated == <<"Contact updated.">>

MsgEnterName == <<"Enter a contact name.">>

MsgEnterDelete == <<"Enter a contact name to delete.">>

MsgNoContacts == <<"No contacts saved.">>

MsgNoBirthday == <<"No birthday found for this contact.">>

MsgNoUpcoming == <<"No upcoming birthdays.">>

\* the message of the ValueError that unpacking args into n names raises
UnpackMsg(args, n) ==
    IF Len(args) < n
    THEN <<"not enough values to unpack (expected ", DigitStr(n), ", got ",
           DigitStr(Len(args)), ")">>
    ELSE <<"too many values to unpack (expected ", DigitStr(n), ")">>

\* input_error: the exceptions it catches become the text it returns, any
\* other exception goes on to the caller
InputError(res) ==
    IF res.kind = "return" THEN res
    ELSE CASE res.exc = "KeyError"   -> [res EXCEPT !.kind = "return", !.value = MsgNoContact]
           [] res.exc = "ValueError" -> [res EXCEPT !.kind = "return"]
           [] res.exc = "IndexError" -> [res EXCEPT !.kind = "return", !.value = MsgArgument]
           [] res.exc = "TypeError"  -> [res EXCEPT !.kind = "return", !.value = MsgInvalidInput]
           [] OTHER                  -> res

\* the body of add_contact
AddContactBody(args, b) ==
    IF Len(args) = 0 THEN Raise("IndexError", <<>>, b)
    ELSE LET name    == args[1]
             phone   == IF Len(args) > 1 THEN args[2] ELSE None
             created == NewRecord(name)
             isNew   == ~Found(b, name)
             b1      == IF isNew THEN AddRecord(b, created.rec) ELSE b
             message == IF isNew THEN MsgAdded ELSE MsgUpdated
             added   == AddPhone(Find(b1, name), phone)
         IN IF isNew /\ created.exc # "none" THEN Raise(created.exc, created.msg, b)
            ELSE IF phone # None /\ Chars(phone) # <<>>
                 THEN IF added.exc # "none"
                      THEN Raise(added.exc, added.msg, b1)
                      ELSE Return(message, Store(b1, name, added.rec))
                 ELSE Return(message, b1)

add_contact(args, b) == InputError(AddContactBody(args, b))

\* the body of change_contact
ChangeContactBody(args, b) ==
    IF Len(args) # 3 THEN Raise("ValueError", UnpackMsg(args, 3), b)
    ELSE LET name   == args[1]
             edited == EditPhone(Find(b, name), args[2], args[3])
         IN IF Found(b, name)
            THEN IF edited.exc # "none"
                 THEN Raise(edited.exc, edited.msg, Store(b, name, edited.rec))
                 ELSE Return(<<"Phone updated for contact ", name, ".">>,
                             Store(b, name, edited.rec))
            ELSE Return(MsgNoContact, b)

change_contact(args, b) == InputError(ChangeContactBody(args, b))

ShowPhoneBodyPop(args, b) ==
    IF Len(args) = 0 THEN Return(MsgEnterName, b)
    ELSE IF Found(b, args[1])
         THEN Return(<<"Phones for ", args[1], ": ">> \o Join(", ", Find(b, args[1]).phones),
                     Delete(b, args[1]).book)
         ELSE Return(MsgNoContact, b)

\* the body of show_phone
ShowPhoneBody(args, b) ==
    IF Len(args) = 0 THEN Return(MsgEnterName, b)
    ELSE IF Found(b, args[1])
         THEN Return(<<"Phones for ", args[1], ": ">> \o Join(", ", Find(b, args[1]).phones), b)
         ELSE Return(MsgNoContact, b)

show_phone(args, b) == InputError(ShowPhoneBody(args, b))

\* the body of delete_contact
DeleteContactBody(args, b) ==
    IF Len(args) = 0 THEN Return(MsgEnterDelete, b)
    ELSE LET d == Delete(b, args[1]) IN
         IF d.exc # "none" THEN Raise(d.exc, <<"No contact named ", args[1]>>, d.book)
         ELSE Return(<<"Contact ", args[1], " deleted.">>, d.book)

delete_contact(args, b) == InputError(DeleteContactBody(args, b))

\* show_all, which input_error does not wrap
show_all(b) ==
    IF Len(b) = 0 THEN Return(MsgNoContacts, b)
    ELSE IF BookStr(b).exc # "none" THEN Raise(BookStr(b).exc, <<>>, b)
         ELSE Return(BookStr(b).text, b)

\* the body of add_birthday
AddBirthdayBody(args, b) ==
    IF Len(args) # 2 THEN Raise("ValueError", UnpackMsg(args, 2), b)
    ELSE LET name == args[1]
             set  == AddBirthday(Find(b, name), args[2])
         IN IF Found(b, name)
            THEN IF set.exc # "none"
                 THEN Raise(set.exc, set.msg, Store(b, name, set.rec))
                 ELSE Return(<<"Birthday added for contact ", name, ".">>,
                             Store(b, name, set.rec))
            ELSE Return(MsgNoContact, b)

add_birthday(args, b) == InputError(AddBirthdayBody(args, b))

\* the body of show_birthday: birthday.value is a str, which has no strftime
ShowBirthdayBody(args, b) ==
    IF Len(args) = 0 THEN Raise("IndexError", <<>>, b)
    ELSE IF Found(b, args[1]) /\ Find(b, args[1]).birthday # None
         THEN Raise("AttributeError", <<>>, b)
         ELSE Return(MsgNoBirthday, b)

show_birthday(args, b) == InputError(ShowBirthdayBody(args, b))

\* "\n".join of the lines of birthdays
RECURSIVE UpcomingLines(_)
UpcomingLines(list) ==
    IF list = <<>> THEN <<>>
    ELSE <<list[1].name, ": ">> \o list[1].birthday
         \o (IF Len(list) > 1 THEN <<"\n">> ELSE <<>>) \o UpcomingLines(Tail(list))

\* the body of birthdays
BirthdaysBody(args, b, td) ==
    LET upcoming == GetUpcomingBirthdays(b, td) IN
    IF upcoming.exc # "none" THEN Raise(upcoming.exc, MsgDayRange, b)
    ELSE IF upcoming.list = <<>> THEN Return(MsgNoUpcoming, b)
         ELSE Return(UpcomingLines(upcoming.list), b)

birthdays(args, b, td) == InputError(BirthdaysBody(args, b, td))

----------------------------------------------------------------------------
(* main: the dispatch loop *)

\* the keys of the commands table of main
Commands == {"add", "change", "phone", "all", "birthday", "add-birthday", "birthdays"}

\* str.lower of a command word
Lower(w) == IF w = "HELLO" THEN "hello" ELSE w

\* the number of parameters of the function the table gives for a command
Params(command) == IF command = "all" THEN 1 ELSE 2

\* commands[command](args, book): a call with two arguments
Call(command, args, b, td) ==
    IF Params(command) # 2 THEN Raise("TypeError", <<>>, b)
    ELSE CASE command = "add"          -> add_contact(args, b)
           [] command = "change"       -> change_contact(args, b)
           [] command = "phone"        -> show_phone(args, b)
           [] command = "birthday"     -> show_birthday(args, b)
           [] command = "add-birthday" -> add_birthday(args, b)
           [] command = "birthdays"    -> birthdays(args, b, td)

\* the argument lists the model enters after each command word: the lists
\* the command is written for, and lists that are too short or too long
ArgsOf(w) ==
    LET none  == {<<>>}
        one   == {<<n>> : n \in NameTokens}
        phone == {<<n, p>> : n \in NameTokens, p \in PhoneTokens}
        date  == {<<n, d>> : n \in NameTokens, d \in DateTokens}
        three == {<<n, p, q>> : n \in NameTokens, p \in PhoneTokens, q \in PhoneTokens}
        extra == {<<n, p, "5555555555">> : n \in NameTokens, p \in GoodPhones}
        four  == {<<n, p, "5555555555", "5555555555">> : n \in NameTokens, p \in GoodPhones}
    IN CASE w = "add"          -> none \cup one \cup phone \cup date \cup extra
         [] w = "change"       -> none \cup one \cup phone \cup three \cup four
         [] w = "add-birthday" -> none \cup one \cup date \cup phone \cup extra
         [] w \in {"hello", "HELLO", "close", "exit"} -> none \cup {<<"ann">>}
         [] OTHER              -> none \cup one \cup phone

CommandWords ==
    Commands \cup {"hello", "HELLO", "close", "exit", "delete", "show-birthday"}

Todays == {Date(2024, 2, 25), Date(2023, 2, 25)}

PhoneCount(b) ==
    LET RECURSIVE Sum(_)
        Sum(i) == IF i = 0 THEN 0 ELSE Len(b[i].rec.phones) + Sum(i - 1)
    IN Sum(Len(b))

Init ==
    /\ book = <<>>
    /\ line = <<>>
    /\ out = <<"Welcome to the assistant bot!">>
    /\ raised = "none"
    /\ today = NoDate
    /\ pc = "printed"

\* back to the head of "while True": nothing is read or printed yet
Loop ==
    /\ pc = "printed"
    /\ pc' = "input"
    /\ line' = <<>>
    /\ out' = <<>>
    /\ raised' = "none"
    /\ today' = NoDate
    /\ UNCHANGED book

\* user_input = input(...), split by parse_input; the model reads no add
\* once the book holds MaxPhones phones
ReadLine ==
    /\ pc = "input"
    /\ \E w \in CommandWords : \E args \in ArgsOf(w) :
        /\ Lower(w) = "add" => PhoneCount(book) < MaxPhones
        /\ line' = <<w>> \o args
    /\ pc' = "dispatch"
    /\ UNCHANGED <<book, out, raised, today>>

\* an empty line: the prompt is issued again
ReadEmpty ==
    /\ pc = "input"
    /\ line' = <<>>
    /\ out' = <<"Please enter a valid command.">>
    /\ pc' = "printed"
    /\ UNCHANGED <<book, raised, today>>

\* close or exit
DoExit ==
    /\ pc = "dispatch"
    /\ Lower(line[1]) \in {"close", "exit"}
    /\ out' = <<"Good bye!">>
    /\ pc' = "exited"
    /\ UNCHANGED <<book, line, raised, today>>

DoHello ==
    /\ pc = "dispatch"
    /\ Lower(line[1]) = "hello"
    /\ out' = <<"How can I help you?">>
    /\ pc' = "printed"
    /\ UNCHANGED <<book, line, raised, today>>

\* a word of the commands table: the function's text is printed, and an
\* exception that the function lets through ends the process
DoCommand ==
    /\ pc = "dispatch"
    /\ Lower(line[1]) \in Commands
    /\ \E td \in IF Lower(line[1]) = "birthdays" THEN Todays ELSE {NoDate} :
        LET res == Call(Lower(line[1]), Tail(line), book, td) IN
        /\ book' = res.book
        /\ raised' = res.exc
        /\ today' = td
        /\ IF res.kind = "return"
           THEN out' = res.value /\ pc' = "printed"
           ELSE out' = <<>> /\ pc' = "crashed"
    /\ UNCHANGED line

DoUnknown ==
    /\ pc = "dispatch"
    /\ Lower(line[1]) \notin Commands \cup {"hello", "close", "exit"}
    /\ out' = <<"Unknown command.">>
    /\ pc' = "printed"
    /\ UNCHANGED <<book, line, raised, today>>

Next ==
    \/ Loop
    \/ ReadLine
    \/ ReadEmpty
    \/ DoExit
    \/ DoHello
    \/ DoCommand
    \/ DoUnknown

Spec == Init /\ [][Next]_vars

----------------------------------------------------------------------------
(* The command functions called directly, as a test of the command layer   *)
(* calls them: delete_contact and show_all, which main cannot reach with   *)
(* a call that succeeds.  An exception goes to the caller.                 *)

CallDeleteContact ==
    /\ pc = "input"
    /\ \E args \in ArgsOf("delete") :
        LET res == delete_contact(args, book) IN
        /\ line' = <<"delete_contact()">> \o args
        /\ book' = res.book
        /\ raised' = res.exc
        /\ out' = IF res.kind = "return" THEN res.value ELSE <<>>
    /\ pc' = "printed"
    /\ UNCHANGED today

CallShowAll ==
    /\ pc = "input"
    /\ LET res == show_all(book) IN
        /\ line' = <<"show_all()">>
        /\ book' = res.book
        /\ raised' = res.exc
        /\ out' = IF res.kind = "return" THEN res.value ELSE <<>>
    /\ pc' = "printed"
    /\ UNCHANGED today

NextApi ==
    \/ Next
    \/ CallDeleteContact
    \/ CallShowAll

SpecApi == Init /\ [][NextApi]_vars

----------------------------------------------------------------------------
(* The upcoming-birthday query on its own: birthdays is called on books of *)
(* one or two contacts, on a day the clock gives.                          *)

\* the birthdays the contacts of these books have
QueryDates == GoodDates \cup {"02.01.2024", "31.12.1999"}

\* the days the clock gives: before and after 29.02 in leap and other
\* years, before a weekend, at the turn of the year
QueryDays ==
    {Date(2024, 2, 24), Date(2024, 2, 25), Date(2023, 2, 25), Date(2025, 2, 25),
     Date(2024, 3, 1), Date(2023, 3, 3), Date(2024, 12, 28), Date(2024, 12, 24),
     Date(2022, 12, 25)}

\* the record "add <name>" and "add-birthday <name> <bd>" leave
QueryRecord(n, bd) == [key |-> n, rec |-> [name |-> n, phones |-> <<>>, birthday |-> bd]]

QueryBooks ==
    LET bds == QueryDates \cup {None} IN
    {<<QueryRecord(n, bd)>> : n \in NameTokens, bd \in bds}
    \cup {<<QueryRecord(nm[1], bd), QueryRecord(nm[2], be)>> :
              nm \in {p \in NameTokens \X NameTokens : p[1] # p[2]},
              bd \in bds, be \in bds}

InitQuery ==
    /\ book \in QueryBooks
    /\ line = <<>>
    /\ out = <<>>
    /\ raised = "none"
    /\ today = NoDate
    /\ pc = "input"

\* birthdays([], book), today read from the clock
CallBirthdays ==
    /\ pc = "input"
    /\ \E td \in QueryDays :
        LET res == birthdays(<<>>, book, td) IN
        /\ line' = <<"birthdays()">>
        /\ book' = res.book
        /\ raised' = res.exc
        /\ today' = td
        /\ out' = IF res.kind = "return" THEN res.value ELSE <<>>
    /\ pc' = "printed"

NextQuery == CallBirthdays

SpecQuery == InitQuery /\ [][NextQuery]_vars

----------------------------------------------------------------------------
(* Phone on its own: Phone(value) for every string of a digit, a letter    *)
(* and the newline, up to MaxStrLen characters.  Here line is the string,  *)
(* character by character.                                                 *)

PhoneAlphabet == {"7", "x", "\n"}

PhoneStrings == UNION {[1..n -> PhoneAlphabet] : n \in 0..MaxStrLen}

InitPhone ==
    /\ book = <<>>
    /\ line \in PhoneStrings
    /\ out = <<>>
    /\ raised = "none"
    /\ today = NoDate
    /\ pc = "input"

\* Phone(value): the object is constructed or ValueError is raised
ConstructPhone ==
    /\ pc = "input"
    /\ raised' = IF PhoneMatch(line) THEN "none" ELSE "ValueError"
    /\ out' = IF PhoneMatch(line) THEN <<>> ELSE MsgPhone
    /\ pc' = "printed"
    /\ UNCHANGED <<book, line, today>>

NextPhone == ConstructPhone

SpecPhone == InitPhone /\ [][NextPhone]_vars

----------------------------------------------------------------------------
(* Record on its own: remove_phone is called on a record that add and      *)
(* add-birthday can leave, with any value.                                 *)

\* the phone lists of up to MaxPhones valid phones
PhoneLists == UNION {[1..n -> GoodPhones] : n \in 0..MaxPhones}

RecordBooks ==
    {<<[key |-> n, rec |-> [name |-> n, phones |-> ps, birthday |-> bd]]>> :
        n \in NameTokens, ps \in PhoneLists, bd \in GoodDates \cup {None}}

InitRecord ==
    /\ book \in RecordBooks
    /\ line = <<>>
    /\ out = <<>>
    /\ raised = "none"
    /\ today = NoDate
    /\ pc = "input"

\* record.remove_phone(value) on the record of the book
CallRemovePhone ==
    /\ pc = "input"
    /\ \E value \in PhoneTokens :
        /\ line' = <<"remove_phone()", value>>
        /\ book' = [book EXCEPT ![1].rec = RemovePhone(@, value)]
    /\ raised' = "none"
    /\ pc' = "printed"
    /\ UNCHANGED <<out, today>>

NextRecord == CallRemovePhone

SpecRecord == InitRecord /\ [][NextRecord]_vars

----------------------------------------------------------------------------
(* Properties *)

\* the command word of a line as main dispatches on it
Cmd(ln) == IF ln = <<>> THEN "" ELSE Lower(ln[1])

Phones(b, name) == Find(b, name).phones

BirthdayOf(b, name) == Find(b, name).birthday

Count(ps, v) == Cardinality({i \in 1..Len(ps) : ps[i] = v})

Has(ps, v) == \E i \in 1..Len(ps) : ps[i] = v

\* C1: every non-empty line other than close/exit is answered with one
\* display string and the loop goes on: no exception escapes a command
\* function and ends the process.
C1_NoExceptionEscapes ==
    [][(pc = "dispatch" /\ Cmd(line) \notin {"", "close", "exit"})
       => (pc' = "printed" /\ out' # <<>>)]_vars

\* C2: add with a name that is not in the book and a phone that is not
\* exactly 10 digits answers the validation message and leaves the book
\* unchanged, without an entry for the name.
C2_FailedAddLeavesBook ==
    [][(/\ pc = "dispatch"
        /\ Cmd(line) = "add"
        /\ Len(line) >= 3
        /\ line[2] \notin Keys(book)
        /\ ~PhoneValid(line[3]))
       => (out' = MsgPhone /\ book' = book /\ line[2] \notin Keys(book'))]_vars

\* C3: change with an old phone the contact has and a new phone that is
\* not exactly 10 digits answers the validation message and leaves the
\* contact's phone sequence unchanged.
C3_FailedChangeLeavesPhones ==
    [][(/\ pc = "dispatch"
        /\ Cmd(line) = "change"
        /\ Len(line) = 4
        /\ Found(book, line[2])
        /\ Has(Phones(book, line[2]), line[3])
        /\ ~PhoneValid(line[4]))
       => (/\ out' = MsgPhone
           /\ Found(book', line[2])
           /\ Phones(book', line[2]) = Phones(book, line[2]))]_vars

\* C4: add with a valid phone keeps exactly one entry for the name; it
\* answers "Contact added." for a new name and starts the phone sequence
\* with that phone, and answers "Contact updated." for a name in the book
\* and appends the phone, keeping the phones and the birthday stored.
C4_AddCreatesThenUpdates ==
    [][(/\ pc = "dispatch"
        /\ Cmd(line) = "add"
        /\ Len(line) >= 3
        /\ PhoneValid(line[3]))
       => (/\ Cardinality({i \in 1..Len(book') : book'[i].key = line[2]}) = 1
           /\ IF Found(book, line[2])
              THEN /\ out' = MsgUpdated
                   /\ Phones(book', line[2]) = Append(Phones(book, line[2]), line[3])
                   /\ BirthdayOf(book', line[2]) = BirthdayOf(book, line[2])
              ELSE /\ out' = MsgAdded
                   /\ Phones(book', line[2]) = <<line[3]>>)]_vars

C4_Witness ==
    /\ pc = "printed"
    /\ Cmd(line) = "add"
    /\ Len(line) = 3
    /\ out = MsgUpdated
    /\ Found(book, line[2])
    /\ Phones(book, line[2]) = <<"5555555555", "5555555555", "1234567890">>
    /\ line[3] = "1234567890"
    /\ BirthdayOf(book, line[2]) # None

\* C5, as claimed: after a change with an old phone the contact has and a
\* valid new phone, the phone sequence does not contain old, contains
\* new, and has the length it had.
C5_OldAbsentAfterEdit ==
    [][(/\ pc = "dispatch"
        /\ Cmd(line) = "change"
        /\ Len(line) = 4
        /\ Found(book, line[2])
        /\ Has(Phones(book, line[2]), line[3])
        /\ PhoneValid(line[4]))
       => (/\ ~Has(Phones(book', line[2]), line[3])
           /\ Has(Phones(book', line[2]), line[4])
           /\ Len(Phones(book', line[2])) = Len(Phones(book, line[2])))]_vars

\* C5, amended: after such a change the phone sequence has the length it
\* had, ends with new, and has lost one occurrence of old, the first: the
\* phones before it stay in place and the phones after it move up by one.
C5_FirstOldReplaced ==
    [][(/\ pc = "dispatch"
        /\ Cmd(line) = "change"
        /\ Len(line) = 4
        /\ Found(book, line[2])
        /\ Has(Phones(book, line[2]), line[3])
        /\ PhoneValid(line[4]))
       => LET before == Phones(book, line[2])
              after  == Phones(book', line[2])
              first  == CHOOSE i \in 1..Len(before) :
                            /\ before[i] = line[3]
                            /\ \A j \in 1..(i - 1) : before[j] # line[3]
          IN /\ Len(after) = Len(before)
             /\ after[Len(after)] = line[4]
             /\ Count(after, line[3])
                    = Count(before, line[3]) - 1 + (IF line[4] = line[3] THEN 1 ELSE 0)
             /\ \A j \in 1..(first - 1) : after[j] = before[j]
             /\ \A j \in (first + 1)..Len(before) : after[j - 1] = before[j]]_vars

C5_Witness ==
    /\ pc = "printed"
    /\ Cmd(line) = "change"
    /\ Len(line) = 4
    /\ line[3] = "1234567890"
    /\ line[4] = "5555555555"
    /\ out = <<"Phone updated for contact ", line[2], ".">>
    /\ Found(book, line[2])
    /\ Phones(book, line[2]) = <<"5555555555", "1234567890", "5555555555">>

\* C6: change with an old phone the contact does not have answers the
\* not-found message, not the success message, whatever new is, and the
\* whole book is as before.
C6_ChangeOfAbsentPhone ==
    [][(/\ pc = "dispatch"
        /\ Cmd(line) = "change"
        /\ Len(line) = 4
        /\ Found(book, line[2])
        /\ ~Has(Phones(book, line[2]), line[3]))
       => (/\ out' = MsgOldPhone
           /\ raised' = "ValueError"
           /\ pc' = "printed"
           /\ book' = book)]_vars

C6_Witness ==
    /\ pc = "printed"
    /\ Cmd(line) = "change"
    /\ Len(line) = 4
    /\ out = MsgOldPhone
    /\ Found(book, line[2])
    /\ Phones(book, line[2]) = <<"5555555555">>
    /\ line[3] = "1234567890"
    /\ PhoneValid(line[4])

\* C7: once a record has a birthday, every later add-birthday on it fails
\* with "Birthday is already set.", for a valid and for an invalid date,
\* and the record keeps the birthday set first in every later state.
C7_BirthdaySetOnce ==
    [][/\ \A i \in 1..Len(book) :
            book[i].rec.birthday # None
            => /\ i <= Len(book')
               /\ book'[i].key = book[i].key
               /\ book'[i].rec.birthday = book[i].rec.birthday
       /\ (/\ pc = "dispatch"
           /\ Cmd(line) = "add-birthday"
           /\ Len(line) = 3
           /\ Found(book, line[2])
           /\ BirthdayOf(book, line[2]) # None)
          => (out' = MsgAlreadySet /\ raised' = "ValueError")]_vars

C7_Witness ==
    /\ pc = "printed"
    /\ Cmd(line) = "add-birthday"
    /\ Len(line) = 3
    /\ out = MsgAlreadySet
    /\ Found(book, line[2])
    /\ BirthdayOf(book, line[2]) = "29.02.2024"
    /\ line[3] = "02.03.1990"
    /\ BirthdayValid(line[3])

\* C8: delete of a name that is not a key fails with the not-found error
\* (KeyError) and leaves the book unchanged; delete of a key removes that
\* entry, so that find gives nothing for it, and every other entry is
\* found with the record it had.
C8_DeleteRemovesExactlyOne ==
    [][(pc = "input" /\ Len(line') >= 2 /\ line'[1] = "delete_contact()")
       => IF line'[2] \in Keys(book)
          THEN /\ raised' = "none"
               /\ ~Found(book', line'[2])
               /\ Keys(book') = Keys(book) \ {line'[2]}
               /\ Len(book') = Len(book) - 1
               /\ \A n \in Keys(book) \ {line'[2]} : Find(book', n) = Find(book, n)
          ELSE /\ raised' = "KeyError"
               /\ out' = MsgNoContact
               /\ book' = book]_vars

C8_Witness ==
    /\ pc = "printed"
    /\ Len(line) = 2
    /\ line[1] = "delete_contact()"
    /\ out = <<"Contact ", line[2], " deleted.">>
    /\ Len(book) = 1
    /\ book[1].key # line[2]
    /\ book[1].rec.phones # <<>>

\* C9: delete is a command of the loop: the line "delete <name>" for a
\* contact of the book removes the contact and is not answered with
\* "Unknown command.".
C9_DeleteIsRecognized ==
    [][(/\ pc = "dispatch"
        /\ Cmd(line) = "delete"
        /\ Len(line) >= 2
        /\ line[2] \in Keys(book))
       => (out' # <<"Unknown command.">> /\ line[2] \notin Keys(book'))]_vars

\* the line that all is to show for one record
RenderedLine(r) ==
    <<"Contact name: ", r.name, ", phones: ">> \o Join("; ", r.phones)
    \o (IF r.birthday # None THEN <<", Birthday: ", r.birthday>> ELSE <<>>)

RECURSIVE RenderedFrom(_, _)
RenderedFrom(b, i) ==
    IF i > Len(b) THEN <<>>
    ELSE RenderedLine(b[i].rec) \o (IF i < Len(b) THEN <<"\n">> ELSE <<>>)
         \o RenderedFrom(b, i + 1)

\* C10: the line "all" is answered with the "no contacts" message when the
\* book is empty, and otherwise with one rendered line per contact: name,
\* phones in stored order and the birthday when one is set.
C10_AllRendersBook ==
    [][(pc = "dispatch" /\ Cmd(line) = "all")
       => (/\ pc' = "printed"
           /\ out' = IF book = <<>> THEN MsgNoContacts ELSE RenderedFrom(book, 1))]_vars

\* C11: the line "show-birthday <name>" for a contact of the book is
\* answered with a message that shows the birthday stored for the contact
\* by add-birthday, and with the "no birthday" message for a contact
\* without one.
C11_ShowBirthdayShowsDate ==
    [][(/\ pc = "dispatch"
        /\ Cmd(line) = "show-birthday"
        /\ Len(line) >= 2
        /\ Found(book, line[2]))
       => (/\ pc' = "printed"
           /\ IF BirthdayOf(book, line[2]) # None
              THEN \E i \in 1..Len(out') : out'[i] = BirthdayOf(book, line[2])
              ELSE out' = MsgNoBirthday)]_vars

\* the first date with month m and day d that is on or after td
FirstOnOrAfter(m, d, td) ==
    LET ys == {y \in td.y..(td.y + 8) :
                  d <= DaysInMonth(y, m) /\ Ordinal(Date(y, m, d)) >= Ordinal(td)}
    IN Date(CHOOSE y \in ys : \A z \in ys : y <= z, m, d)

\* the days from td to the first date with the month and day of the
\* birthday text bd
DaysUntilNext(bd, td) ==
    Ordinal(FirstOnOrAfter(Strptime(bd).m, Strptime(bd).d, td)) - Ordinal(td)

\* the text of birthdays has a line for the name
Reported(text, name) == \E i \in 1..Len(text) : text[i] = name

\* C12: the upcoming-birthday query reports a contact exactly when it has
\* a birthday and the first date with the birthday's month and day on or
\* after today is 0 to 7 days after today, also when that date is in the
\* next calendar year; contacts without a birthday are never reported.
C12_ReportedIffWithinWindow ==
    (pc = "printed" /\ line = <<"birthdays()">>)
    => \A i \in 1..Len(book) :
          Reported(out, book[i].key)
          <=> (/\ book[i].rec.birthday # None
               /\ DaysUntilNext(book[i].rec.birthday, today) \in 0..7)

\* the greeting date that the text of birthdays gives after the name
GreetingText(text, i) == SubSeq(text, i + 2, i + 11)

GreetingOf(text, name) ==
    ParseDate(GreetingText(text, CHOOSE i \in 1..Len(text) : text[i] = name),
              DateSplits(GreetingText(text, CHOOSE i \in 1..Len(text) : text[i] = name)))

\* what C13 says of a reported greeting date, for the candidate date (the
\* next birthday) and today
GreetingAsClaimed(greeting, candidate, td) ==
    /\ greeting.ok
    /\ Ordinal(greeting) - Ordinal(candidate)
           = (IF Weekday(candidate) = 5 THEN 2 ELSE IF Weekday(candidate) = 6 THEN 1 ELSE 0)
    /\ Weekday(greeting) \notin {5, 6}
    /\ Ordinal(greeting) >= Ordinal(candidate)
    /\ Ordinal(greeting) - Ordinal(td) <= 9

\* C13: for every contact the query reports, the greeting date is the
\* candidate date when that is Monday to Friday, the candidate plus 2 days
\* when it is a Saturday and plus 1 day when it is a Sunday; it is never a
\* Saturday or Sunday, never before the candidate, and at most 9 days after
\* today.
C13_GreetingOnWeekday ==
    (pc = "printed" /\ line = <<"birthdays()">>)
    => \A i \in 1..Len(book) :
          Reported(out, book[i].key)
          => GreetingAsClaimed(GreetingOf(out, book[i].key),
                               FirstOnOrAfter(Strptime(book[i].rec.birthday).m,
                                              Strptime(book[i].rec.birthday).d, today),
                               today)

C13_Witness ==
    /\ pc = "printed"
    /\ line = <<"birthdays()">>
    /\ today = Date(2024, 2, 24)
    /\ Len(book) = 2
    /\ book[2].key = "bob"
    /\ book[2].rec.birthday = "02.03.1990"
    /\ Weekday(Date(2024, 3, 2)) = 5
    /\ Reported(out, "ann")
    /\ GreetingOf(out, "bob") = Date(2024, 3, 4)

\* the date of 29 February that get_upcoming_birthdays builds for a
\* birthday on 29.02 does not exist: today's year is no leap year, or it
\* is one, 29.02 is before today, and the date is built for the next year
NoLeapDayFor(td) ==
    \/ ~IsLeap(td.y)
    \/ Ordinal(Date(td.y, 2, 29)) < Ordinal(td) /\ ~IsLeap(td.y + 1)

HasLeapDayBirthday(b) ==
    \E i \in 1..Len(b) :
        /\ b[i].rec.birthday # None
        /\ Strptime(b[i].rec.birthday).m = 2
        /\ Strptime(b[i].rec.birthday).d = 29

\* C18: when a record of the book has its birthday on 29.02 and the year
\* the candidate date is built for is no leap year, the query raises and
\* gives no list: birthdays answers with the error text and reports no
\* contact, those within the window included, and the book is unchanged.
C18_LeapDayAbortsQuery ==
    [][(/\ pc = "input"
        /\ line' = <<"birthdays()">>
        /\ HasLeapDayBirthday(book)
        /\ NoLeapDayFor(today'))
       => (/\ raised' = "ValueError"
           /\ pc' = "printed"
           /\ out' = MsgDayRange
           /\ \A i \in 1..Len(book) : ~Reported(out', book[i].key)
           /\ book' = book)]_vars

C18_Witness ==
    /\ pc = "printed"
    /\ line = <<"birthdays()">>
    /\ today = Date(2024, 3, 1)
    /\ raised = "ValueError"
    /\ out = MsgDayRange
    /\ Len(book) = 2
    /\ book[1].rec.birthday = "02.03.1990"
    /\ DaysUntilNext(book[1].rec.birthday, today) = 1
    /\ book[2].rec.birthday = "29.02.2024"

\* the keys of the book in the order of its entries
KeySeq(b) == [i \in 1..Len(b) |-> b[i].key]

IsName(f) == f \in NameTokens

\* the names the text of birthdays has lines for, in the order of the lines
ReportedNames(text) == SelectSeq(text, IsName)

\* the sequence ks without its element i
Dropped(ks, i) == SubSeq(ks, 1, i - 1) \o SubSeq(ks, i + 1, Len(ks))

\* C14: the entries of the book are in the order of their insertion: a
\* step leaves the keys as they are, appends a name that was not a key, or
\* drops one key (so a name deleted and added again is last), and an add
\* of a name in the book does not move it; the upcoming-birthday query
\* lists the contacts it reports in that order, whatever their dates.
C14_ReportedInInsertionOrder ==
    [][/\ \/ KeySeq(book') = KeySeq(book)
          \/ \E n \in NameTokens \ Keys(book) : KeySeq(book') = Append(KeySeq(book), n)
          \/ \E i \in 1..Len(book) : KeySeq(book') = Dropped(KeySeq(book), i)
       /\ (pc = "dispatch" /\ Cmd(line) = "add" /\ Len(line) >= 2 /\ Found(book, line[2]))
          => KeySeq(book') = KeySeq(book)
       /\ (pc = "dispatch" /\ Cmd(line) = "birthdays")
          => LET isReported(k) == Reported(out', k)
             IN ReportedNames(out') = SelectSeq(KeySeq(book), isReported)]_vars

C14_Witness ==
    /\ pc = "printed"
    /\ Cmd(line) = "birthdays"
    /\ KeySeq(book) = <<"bob", "ann">>
    /\ ReportedNames(out) = <<"bob", "ann">>
    /\ GreetingOf(out, "bob") = Date(2024, 3, 4)
    /\ GreetingOf(out, "ann") = Date(2024, 2, 29)

\* the number of arguments C15 gives for the function a command word of
\* the loop calls (show_birthday is the word "birthday")
Required(command) ==
    CASE command = "add"          -> 1
      [] command = "change"       -> 3
      [] command = "phone"        -> 1
      [] command = "add-birthday" -> 2
      [] command = "birthday"     -> 1
      [] OTHER                    -> 0

\* C15: a command function called with fewer arguments than it requires
\* (add 1, change 3, phone 1, delete 1, add-birthday 2, show-birthday 1)
\* answers "Enter the argument for the command." and leaves the book
\* unchanged.
C15_TooFewArguments ==
    [][/\ (pc = "dispatch" /\ Len(line) - 1 < Required(Cmd(line)))
          => (out' = MsgArgument /\ book' = book)
       /\ (pc = "input" /\ line' = <<"delete_contact()">>)
          => (out' = MsgArgument /\ book' = book)]_vars

\* C16: constructing a Phone from a string of digits, a letter and the
\* newline succeeds exactly when the string is 10 decimal digits and
\* nothing else; every other string fails with the validation error.
C16_PhoneIffTenDigits ==
    pc = "printed"
    => (raised = "none" <=> (Len(line) = 10 /\ \A i \in 1..Len(line) : line[i] \in Digits))

\* C17: remove_phone(value) removes the first stored phone equal to value
\* and keeps every other phone, later duplicates of value included, in
\* order; when no stored phone equals value nothing is raised and the
\* phones are as before.  Name and birthday are unchanged in both cases.
C17_RemoveFirstOnly ==
    [][(pc = "input" /\ Len(line') = 2 /\ line'[1] = "remove_phone()")
       => LET before == book[1].rec.phones
              after  == book'[1].rec.phones
          IN /\ raised' = "none"
             /\ Len(book') = 1
             /\ book'[1].key = book[1].key
             /\ book'[1].rec.name = book[1].rec.name
             /\ book'[1].rec.birthday = book[1].rec.birthday
             /\ IF Has(before, line'[2])
                THEN \E i \in 1..Len(before) :
                        /\ before[i] = line'[2]
                        /\ \A j \in 1..(i - 1) : before[j] # line'[2]
                        /\ after = Dropped(before, i)
                ELSE after = before]_vars

C17_Witness ==
    /\ pc = "printed"
    /\ line = <<"remove_phone()", "1234567890">>
    /\ book[1].rec.phones = <<"5555555555", "1234567890">>
    /\ book[1].rec.birthday = "02.03.1990"

\* the characters cs are a date written DD.MM.YYYY
DateFormText(cs) ==
    /\ Len(cs) = 10
    /\ cs[3] = "."
    /\ cs[6] = "."
    /\ \A i \in {1, 2, 4, 5, 7, 8, 9, 10} : cs[i] \in Digits

TenDigits(cs) == Len(cs) = 10 /\ \A i \in 1..Len(cs) : cs[i] \in Digits

NonBlank(cs) == \E i \in 1..Len(cs) : cs[i] \notin Whitespace

\* C19: in every reachable state every key of the book is the name of the
\* record stored under it, every name is non-blank, every stored phone is
\* exactly 10 digits, and every stored birthday is a date of the calendar
\* written DD.MM.YYYY.
C19_BookWellFormed ==
    \A i \in 1..Len(book) :
        /\ book[i].key = book[i].rec.name
        /\ NonBlank(Chars(book[i].rec.name))
        /\ \A j \in 1..Len(book[i].rec.phones) : TenDigits(Chars(book[i].rec.phones[j]))
        /\ book[i].rec.birthday # None
           => (/\ DateFormText(Chars(book[i].rec.birthday))
               /\ Strptime(book[i].rec.birthday).ok)

\* C20: phone, show-birthday (the function main has under the word
\* "birthday"), birthdays, hello and a word main does not know leave the
\* book as it is: the same names, and for every name the same phones and
\* the same birthday, whether the line is answered with a result or with
\* an error text.
C20_QueriesLeaveBook ==
    [][(/\ pc = "dispatch"
        /\ \/ Cmd(line) \in {"phone", "show-birthday", "birthday", "birthdays", "hello"}
           \/ Cmd(line) \notin Commands \cup {"close", "exit"})
       => (/\ KeySeq(book') = KeySeq(book)
           /\ \A n \in Keys(book) :
                /\ Phones(book', n) = Phones(book, n)
                /\ BirthdayOf(book', n) = BirthdayOf(book, n))]_vars

C20_Witness ==
    /\ pc = "printed"
    /\ line = <<"phone", "ann">>
    /\ out = <<"Phones for ", "ann", ": ", "1234567890", ", ", "5555555555">>
    /\ Phones(book, "ann") = <<"1234567890", "5555555555">>
    /\ BirthdayOf(book, "ann") = "29.02.2024"
    /\ Len(book) = 2

====
